---- MODULE Spec2Model ----
(***************************************************************************)
(* A model of get-longhorn-backup (src/src/main.rs): restoring one backup  *)
(* image from a content-addressed bucket into a local destination file.    *)
(*                                                                         *)
(* Strings are sequences of one-character strings, so that slicing and     *)
(* searching them is computed, not assumed.  Bytes are small naturals:     *)
(* payload bytes are 1..3, a byte of the old destination file is 9, and 0  *)
(* is what a position reads as when the file was extended past it without  *)
(* writing it (a hole).  The old file of the twin run holds bytes 8.       *)
(***************************************************************************)
EXTENDS Naturals, Sequences, FiniteSets, TLC

VARIABLES
    args_len,      \* args.len() (line 64)
    backup_name,   \* args[4] (line 75)
    bucket_index,  \* the document the bucket stores under backup_name
    dst,           \* the file at dst_path: [exists, bytes]
    dst_before,    \* the file at dst_path as the run found it
    dst_twin,      \* the file at dst_path of a twin run: the same command,
                   \* bucket answers and I/O outcomes over another old file
    pc,            \* position of main
    exit_code,     \* process exit status once pc = "exit"
    error,         \* what ended the run: "none" while running or on success
    basename,      \* line 78
    index,         \* the parsed BackupCfg (line 94)
    b,             \* the stream: how many blocks its `for` loop has taken
    block,         \* the descriptor the loop body is working on (line 51)
    blockname,     \* line 52
    contents,      \* line 53
    out,           \* line 55-57: the decoded payload, then the yielded chunk
    requests,      \* every path get_object was called with, in call order
    writes         \* every (offset, chunk) whose seek and write_all completed

vars == << args_len, backup_name, bucket_index, dst, dst_before, dst_twin,
           pc, exit_code, error, basename, index, b, block, blockname,
           contents, out, requests, writes >>

-----------------------------------------------------------------------------
(* Bounds of the model.                                                    *)

MaxNameLen == 3
MaxBlocks == 3
MaxOffset == 2

(* Program constants.                                                      *)

ExpectedArgs == 6
UsageExit == 3
FailureExit == 1

-----------------------------------------------------------------------------
(* Strings.                                                                *)

Slash == "/"

StrBlocks == << "/", "b", "l", "o", "c", "k", "s", "/" >>

StrBlk == << ".", "b", "l", "k" >>

Lz4 == << "l", "z", "4" >>

Gzip == << "g", "z", "i", "p" >>

Lz4Upper == << "L", "Z", "4" >>

SeqsUpTo(S, n) == UNION { [1..k -> S] : k \in 0..n }

Max(x, y) == IF x >= y THEN x ELSE y

-----------------------------------------------------------------------------
(* The environment: command lines, bucket contents, the old destination.   *)

NameChars == { "/", "a", "b" }

AllNames == SeqsUpTo(NameChars, MaxNameLen)

\* "backups/host1/2023-01-01/index.json"
LongName ==
    << "b","a","c","k","u","p","s","/","h","o","s","t","1","/",
       "2","0","2","3","-","0","1","-","0","1","/",
       "i","n","d","e","x",".","j","s","o","n" >>

ArgCounts == { 5, 6, 7 }

\* "abcd1234"
CkLong == << "a","b","c","d","1","2","3","4" >>

CkB == << "a", "b", "e", "f" >>

CkEmpty == << "c", "d", "e", "f" >>

CkShort == << "a", "b", "c" >>

\* The checksums under which the bucket stores a block object.
Checksums == { CkLong, CkB, CkEmpty }

\* The payload the bucket holds, LZ4-compressed, under a block's checksum.
Payload(checksum) ==
    IF checksum = CkLong THEN << 1, 2 >>
    ELSE IF checksum = CkB THEN << 3 >>
    ELSE << >>

BlockDescs == [ Offset : 0..MaxOffset, BlockChecksum : Checksums ]

BlockLists == SeqsUpTo(BlockDescs, MaxBlocks)

\* A few manifests, among them two with a checksum too short to slice.
SmallBlockLists ==
    { << >>,
      << [Offset |-> 0, BlockChecksum |-> CkLong] >>,
      << [Offset |-> 0, BlockChecksum |-> CkB],
         [Offset |-> 1, BlockChecksum |-> CkLong] >>,
      << [Offset |-> 0, BlockChecksum |-> CkShort] >>,
      << [Offset |-> 0, BlockChecksum |-> CkB],
         [Offset |-> 1, BlockChecksum |-> CkShort],
         [Offset |-> 1, BlockChecksum |-> CkLong] >> }

Methods == { Lz4, Gzip, Lz4Upper }

\* A JSON document is a function from its field names to their values.
JsonCfg(m, bl) ==
    [ json |-> TRUE, obj |-> [CompressionMethod |-> m, Blocks |-> bl] ]

MalformedDocs ==
    { [ json |-> FALSE, obj |-> [garbage |-> TRUE] ],
      [ json |-> TRUE, obj |-> [Blocks |-> << >>] ],
      [ json |-> TRUE, obj |-> [compressionMethod |-> Lz4, blocks |-> << >>] ],
      [ json |-> TRUE,
        obj |-> [CompressionMethod |-> Lz4,
                 Blocks |-> << [Offset |-> 0] >>] ] }

ExtraFieldDoc ==
    [ json |-> TRUE,
      obj |-> [CompressionMethod |-> Lz4,
               Blocks |-> << [Offset |-> 0, BlockChecksum |-> CkB] >>,
               Extra |-> 1] ]

Stored(doc) == [ found |-> TRUE, body |-> doc ]

NoSuchKey ==
    [ found |-> FALSE, body |-> [ json |-> FALSE, obj |-> [garbage |-> TRUE] ] ]

AllDocs ==
    { Stored(JsonCfg(Lz4, bl)) : bl \in BlockLists }

SmallDocs ==
    { Stored(JsonCfg(m, bl)) : m \in Methods, bl \in SmallBlockLists }
        \cup { Stored(d) : d \in MalformedDocs }
        \cup { Stored(ExtraFieldDoc), NoSuchKey }

OldBytes == << 9, 9, 9, 9 >>

OldDst == [exists |-> TRUE, bytes |-> OldBytes]

PriorDst == { [exists |-> FALSE, bytes |-> << >>], OldDst }

\* The old file of the twin run: never the one this run finds.
TwinPrior(file) ==
    IF file.exists THEN [exists |-> TRUE, bytes |-> << 8, 8, 8, 8, 8, 8 >>]
    ELSE OldDst

-----------------------------------------------------------------------------
(* Pure functions of the program.                                          *)

\* str::rmatch_indices(ch): the positions of ch, last first.
RECURSIVE RMatchIndices(_, _, _)
RMatchIndices(s, ch, i) ==
    IF i = 0 THEN << >>
    ELSE IF s[i] = ch THEN << i >> \o RMatchIndices(s, ch, i - 1)
    ELSE RMatchIndices(s, ch, i - 1)

\* Iterator::nth(n), 0-based: a sequence of zero or one element.
Nth(it, n) == IF Len(it) > n THEN << it[n + 1] >> ELSE << >>

\* let basename = if let Some((base_i, _)) = ... { &backup_name[..base_i] }
BaseIndexLastSlash(name) == Nth(RMatchIndices(name, Slash, Len(name)), 0)

BaseIndex(name) == Nth(RMatchIndices(name, Slash, Len(name)), 1)

Basename(name) == SubSeq(name, 1, BaseIndex(name)[1] - 1)

\* `for block in blocks`: whether the loop is over after `taken` elements,
\* and the element it takes next.
LoopDoneEarly(blocks, taken) == taken + 1 >= Len(blocks)

LoopDone(blocks, taken) == taken >= Len(blocks)

TakeNextReversed(blocks, taken) == blocks[Len(blocks) - taken]

TakeNext(blocks, taken) == blocks[taken + 1]

\* &block.BlockChecksum[0..2] and [2..4] panic on a shorter string.
SlicePanics(checksum) == Len(checksum) < 4

\* format!("{}/blocks/{}/{}/{}.blk", basename, c[0..2], c[2..4], c)
BlockNameOneShard(base, checksum) ==
    base \o StrBlocks \o SubSeq(checksum, 1, 2) \o << Slash >>
         \o checksum \o StrBlk

BlockName(base, checksum) ==
    base \o StrBlocks \o SubSeq(checksum, 1, 2) \o << Slash >>
         \o SubSeq(checksum, 3, 4) \o << Slash >> \o checksum \o StrBlk

\* serde_json::from_slice::<BackupCfg>: the fields must be present with
\* their exact names; unknown fields are ignored.
BlockOk(blk) == { "Offset", "BlockChecksum" } \subseteq DOMAIN blk

ParseOk(doc) ==
    /\ doc.json
    /\ { "CompressionMethod", "Blocks" } \subseteq DOMAIN doc.obj
    /\ \A k \in DOMAIN doc.obj.Blocks : BlockOk(doc.obj.Blocks[k])

FromSlice(doc) ==
    [ CompressionMethod |-> doc.obj.CompressionMethod,
      Blocks |-> [ k \in DOMAIN doc.obj.Blocks |->
                     [ Offset |-> doc.obj.Blocks[k].Offset,
                       BlockChecksum |-> doc.obj.Blocks[k].BlockChecksum ] ] ]

MethodSupportedAnyCase(m) == m \in { Lz4, Lz4Upper }

MethodSupported(m) == m = Lz4

\* The LZ4 frame of a payload, and what the bucket returns when the stored
\* object is damaged.
Lz4Frame(payload) == [ magic |-> TRUE, data |-> payload ]

Damaged(payload) == [ magic |-> FALSE, data |-> payload ]

DecodeOk(frame) == frame.magic

Decode(frame) == frame.data

\* f.seek(SeekFrom::Start(offset)); f.write_all(&chunk): the file grows
\* to the end of the chunk; positions it skips read as 0.  An empty chunk
\* issues no write and leaves the file as it is.
WriteAtNoSeek(bytes, offset, chunk) ==
    IF chunk = << >> THEN bytes
    ELSE [ p \in 1..Max(Len(bytes), Len(chunk)) |->
             IF p <= Len(chunk) THEN chunk[p] ELSE bytes[p] ]

WriteAtSeekOnly(bytes, offset, chunk) == bytes

WriteAtOffByOne(bytes, offset, chunk) ==
    IF chunk = << >> THEN bytes
    ELSE [ p \in 1..Max(Len(bytes), offset + 1 + Len(chunk)) |->
             IF p > offset + 1 /\ p <= offset + 1 + Len(chunk)
             THEN chunk[p - offset - 1]
             ELSE IF p <= Len(bytes) THEN bytes[p]
             ELSE 0 ]

WriteAtAppend(bytes, offset, chunk) == bytes \o chunk

WriteAtTruncating(bytes, offset, chunk) ==
    IF chunk = << >> THEN bytes
    ELSE [ p \in 1..(offset + Len(chunk)) |->
             IF p > offset THEN chunk[p - offset]
             ELSE IF p <= Len(bytes) THEN bytes[p]
             ELSE 0 ]

WriteAt(bytes, offset, chunk) ==
    IF chunk = << >> THEN bytes
    ELSE [ p \in 1..Max(Len(bytes), offset + Len(chunk)) |->
             IF p > offset /\ p <= offset + Len(chunk) THEN chunk[p - offset]
             ELSE IF p <= Len(bytes) THEN bytes[p]
             ELSE 0 ]

\* File::create: the file exists afterwards and has length 0.
KeptOnCreate(file) == [exists |-> TRUE, bytes |-> file.bytes]

Truncated(file) == [exists |-> TRUE, bytes |-> << >>]

NoIndex == [ CompressionMethod |-> << >>, Blocks |-> << >> ]

NoContents == Damaged(<< >>)

NoBlock == [ Offset |-> 0, BlockChecksum |-> << >> ]

-----------------------------------------------------------------------------
(* Initial states.                                                         *)

InitRun ==
    /\ pc = "args"
    /\ exit_code = 0
    /\ error = "none"
    /\ basename = << >>
    /\ index = NoIndex
    /\ b = 0
    /\ block = NoBlock
    /\ blockname = << >>
    /\ contents = NoContents
    /\ out = << >>
    /\ requests = << >>
    /\ writes = << >>

\* Every manifest within the bounds is restored under one command line over
\* an old destination file; every command line within the bounds is run
\* against a few manifests.
Init ==
    /\ InitRun
    /\ \/ /\ args_len = ExpectedArgs
          /\ backup_name = LongName
          /\ bucket_index \in AllDocs
          /\ dst = OldDst
       \/ /\ args_len \in ArgCounts
          /\ backup_name \in AllNames \cup { LongName }
          /\ bucket_index \in SmallDocs
          /\ dst \in PriorDst
    /\ dst_before = dst
    /\ dst_twin = TwinPrior(dst)

-----------------------------------------------------------------------------
(* The steps of main and of the stream it polls.  Lines 85-91 (credentials *)
(* and the bucket handle) belong to the object-store client and change     *)
(* nothing the steps below read.                                           *)

Exit(code, err) ==
    /\ pc' = "exit"
    /\ exit_code' = code
    /\ error' = err

\* Lines 64-71: the argument count.
CheckArgs ==
    /\ pc = "args"
    /\ IF args_len # ExpectedArgs
       THEN Exit(UsageExit, "usage")
       ELSE /\ pc' = "basename"
            /\ UNCHANGED << exit_code, error >>
    /\ UNCHANGED << args_len, backup_name, bucket_index, dst, dst_before,
                    dst_twin, basename, index, b, block, blockname, contents,
                    out, requests, writes >>

\* Lines 78-83: the backup root, two directory levels above the manifest.
DeriveBasename ==
    /\ pc = "basename"
    /\ IF BaseIndex(backup_name) # << >>
       THEN /\ basename' = Basename(backup_name)
            /\ pc' = "get_index"
            /\ UNCHANGED << exit_code, error >>
       ELSE /\ Exit(FailureExit, "basename")
            /\ UNCHANGED basename
    /\ UNCHANGED << args_len, backup_name, bucket_index, dst, dst_before,
                    dst_twin, index, b, block, blockname, contents, out,
                    requests, writes >>

\* Lines 93-94: fetch the manifest and parse it.  The request can fail
\* although the object exists (transport, credentials).
GetIndexAfterCreate ==
    /\ pc = "get_index"
    /\ requests' = Append(requests, backup_name)
    /\ dst' = Truncated(dst)
    /\ dst_twin' = Truncated(dst_twin)
    /\ \E transport_ok \in BOOLEAN :
         IF ~(transport_ok /\ bucket_index.found)
         THEN Exit(FailureExit, "remote") /\ UNCHANGED index
         ELSE IF ~ParseOk(bucket_index.body)
         THEN Exit(FailureExit, "json") /\ UNCHANGED index
         ELSE /\ index' = FromSlice(bucket_index.body)
              /\ pc' = "check_method"
              /\ UNCHANGED << exit_code, error >>
    /\ UNCHANGED << args_len, backup_name, bucket_index, dst_before,
                    basename, b, block, blockname, contents, out, writes >>

GetIndex ==
    /\ pc = "get_index"
    /\ requests' = Append(requests, backup_name)
    /\ \E transport_ok \in BOOLEAN :
         IF ~(transport_ok /\ bucket_index.found)
         THEN Exit(FailureExit, "remote") /\ UNCHANGED index
         ELSE IF ~ParseOk(bucket_index.body)
         THEN Exit(FailureExit, "json") /\ UNCHANGED index
         ELSE /\ index' = FromSlice(bucket_index.body)
              /\ pc' = "check_method"
              /\ UNCHANGED << exit_code, error >>
    /\ UNCHANGED << args_len, backup_name, bucket_index, dst, dst_before,
                    dst_twin, basename, b, block, blockname, contents, out,
                    writes >>

\* Lines 96-101: only lz4; then the stream is built, which does nothing yet.
CheckMethod ==
    /\ pc = "check_method"
    /\ IF ~MethodSupported(index.CompressionMethod)
       THEN Exit(FailureExit, "method")
       ELSE /\ pc' = "create"
            /\ UNCHANGED << exit_code, error >>
    /\ UNCHANGED << args_len, backup_name, bucket_index, dst, dst_before,
                    dst_twin, basename, index, b, block, blockname, contents,
                    out, requests, writes >>

\* Line 103: File::create creates the file or truncates it to length 0.
CreateFile ==
    /\ pc = "create"
    /\ \E create_ok \in BOOLEAN :
         IF create_ok
         THEN /\ dst' = Truncated(dst)
              /\ dst_twin' = Truncated(dst_twin)
              /\ pc' = "next"
              /\ UNCHANGED << exit_code, error >>
         ELSE /\ Exit(FailureExit, "io")
              /\ UNCHANGED << dst, dst_twin >>
    /\ UNCHANGED << args_len, backup_name, bucket_index, dst_before,
                    basename, index, b, block, blockname, contents, out,
                    requests, writes >>

\* Line 104 polling lines 51-52: the stream takes the next block and
\* formats its object path, or ends and main returns Ok(()) (line 108).
StreamNextStrict ==
    /\ pc = "next"
    /\ IF b >= Len(index.Blocks)
       THEN /\ Exit(0, "none")
            /\ UNCHANGED << b, block, blockname >>
       ELSE /\ b' = b + 1
            /\ block' = TakeNext(index.Blocks, b)
            /\ IF b >= 1 /\ block'.Offset # block.Offset + Len(out)
               THEN /\ Exit(FailureExit, "skipped")
                    /\ UNCHANGED blockname
               ELSE IF SlicePanics(block'.BlockChecksum)
               THEN /\ Exit(101, "panic")
                    /\ UNCHANGED blockname
               ELSE /\ blockname' = BlockName(basename, block'.BlockChecksum)
                    /\ pc' = "get_block"
                    /\ UNCHANGED << exit_code, error >>
    /\ UNCHANGED << args_len, backup_name, bucket_index, dst, dst_before,
                    dst_twin, basename, index, contents, out, requests,
                    writes >>

StreamNext ==
    /\ pc = "next"
    /\ IF LoopDone(index.Blocks, b)
       THEN /\ Exit(0, "none")
            /\ UNCHANGED << b, block, blockname >>
       ELSE /\ b' = b + 1
            /\ block' = TakeNext(index.Blocks, b)
            /\ IF SlicePanics(block'.BlockChecksum)
               THEN /\ Exit(101, "panic")   \* the exit status of a panic
                    /\ UNCHANGED blockname
               ELSE /\ blockname' = BlockName(basename, block'.BlockChecksum)
                    /\ pc' = "get_block"
                    /\ UNCHANGED << exit_code, error >>
    /\ UNCHANGED << args_len, backup_name, bucket_index, dst, dst_before,
                    dst_twin, basename, index, contents, out, requests,
                    writes >>

\* Line 53: one whole-object request; an error ends the stream and main.
GetBlock ==
    /\ pc = "get_block"
    /\ requests' = Append(requests, blockname)
    /\ \E got \in { "ok", "damaged", "error" } :
         IF got = "error"
         THEN Exit(FailureExit, "remote") /\ UNCHANGED contents
         ELSE /\ contents' =
                   IF got = "ok"
                   THEN Lz4Frame(Payload(block.BlockChecksum))
                   ELSE Damaged(Payload(block.BlockChecksum))
              /\ pc' = "decode"
              /\ UNCHANGED << exit_code, error >>
    /\ UNCHANGED << args_len, backup_name, bucket_index, dst, dst_before,
                    dst_twin, basename, index, b, block, blockname, out,
                    writes >>

\* Lines 54-57: decode the whole object, then yield (block.Offset, out).
DecodeBlockSkipDamaged ==
    /\ pc = "decode"
    /\ IF DecodeOk(contents)
       THEN /\ out' = Decode(contents)
            /\ pc' = "write"
       ELSE /\ pc' = "next"
            /\ UNCHANGED out
    /\ UNCHANGED << args_len, backup_name, bucket_index, dst, dst_before,
                    dst_twin, exit_code, error, basename, index, b, block,
                    blockname, contents, requests, writes >>

DecodeBlock ==
    /\ pc = "decode"
    /\ IF DecodeOk(contents)
       THEN /\ out' = Decode(contents)
            /\ pc' = "write"
            /\ UNCHANGED << exit_code, error >>
       ELSE /\ Exit(FailureExit, "decode")
            /\ UNCHANGED out
    /\ UNCHANGED << args_len, backup_name, bucket_index, dst, dst_before,
                    dst_twin, basename, index, b, block, blockname, contents,
                    requests, writes >>

\* Lines 105-106: seek to the offset and write the chunk in full.  The
\* seek can fail, and write_all can fail after writing part of the chunk.
WriteChunkDeferred ==
    /\ pc = "write"
    /\ pc' = "next"
    /\ UNCHANGED << args_len, backup_name, bucket_index, dst, dst_before,
                    dst_twin, exit_code, error, basename, index, b, block,
                    blockname, contents, out, requests, writes >>

WriteChunk ==
    /\ pc = "write"
    /\ \/ /\ dst' = [dst EXCEPT !.bytes = WriteAt(dst.bytes, block.Offset, out)]
          /\ dst_twin' = [dst_twin EXCEPT !.bytes =
                             WriteAt(dst_twin.bytes, block.Offset, out)]
          /\ writes' = Append(writes, << block.Offset, out >>)
          /\ pc' = "next"
          /\ UNCHANGED << exit_code, error >>
       \/ /\ \E n \in 0..(Len(out) - 1) :
               /\ dst' = [dst EXCEPT !.bytes =
                            WriteAt(dst.bytes, block.Offset, SubSeq(out, 1, n))]
               /\ dst_twin' = [dst_twin EXCEPT !.bytes =
                                 WriteAt(dst_twin.bytes, block.Offset,
                                         SubSeq(out, 1, n))]
          /\ Exit(FailureExit, "io")
          /\ UNCHANGED writes
       \/ /\ Exit(FailureExit, "io")
          /\ UNCHANGED << dst, dst_twin, writes >>
    /\ UNCHANGED << args_len, backup_name, bucket_index, dst_before,
                    basename, index, b, block, blockname, contents, out,
                    requests >>

Next ==
    \/ CheckArgs
    \/ DeriveBasename
    \/ GetIndex
    \/ CheckMethod
    \/ CreateFile
    \/ StreamNext
    \/ GetBlock
    \/ DecodeBlock
    \/ WriteChunk

Spec == Init /\ [][Next]_vars

\* Every await and every call of the run returns: a step that can be
\* taken is taken.
FairSpec == Spec /\ WF_vars(Next)

TypeOK ==
    /\ pc \in { "args", "basename", "get_index", "check_method", "create",
                "next", "get_block", "decode", "write", "exit" }
    /\ exit_code \in { 0, FailureExit, UsageExit, 101 }
    /\ b \in 0..Len(index.Blocks)

-----------------------------------------------------------------------------
(* Vocabulary of the properties.                                           *)

Blocks == index.Blocks

\* The block requests the bucket has seen: all requests but the manifest's.
BlockRequests == IF requests = << >> THEN << >> ELSE Tail(requests)

\* The bytes that were compressed and stored for the k-th descriptor.
PayloadOf(k) == Payload(Blocks[k].BlockChecksum)

\* The byte positions (1-based) of the k-th descriptor's range.
RangeOf(k) ==
    { p \in 1..(Blocks[k].Offset + Len(PayloadOf(k))) : p > Blocks[k].Offset }

RECURSIVE TotalLen(_)
TotalLen(k) == IF k = 0 THEN 0 ELSE TotalLen(k - 1) + Len(PayloadOf(k))

RECURSIVE Concat(_)
Concat(k) == IF k = 0 THEN << >> ELSE Concat(k - 1) \o PayloadOf(k)

\* The manifest's offsets are the cumulative lengths of the payloads.
Cumulative == \A k \in 1..Len(Blocks) : Blocks[k].Offset = TotalLen(k - 1)

Ended == pc = "exit"

\* Every block was requested, and no request and no decoding failed.
AllFetchedAndDecoded ==
    /\ Ended
    /\ Len(BlockRequests) = Len(Blocks)
    /\ error \notin { "remote", "decode" }

-----------------------------------------------------------------------------
(* C1, as stated: for a non-empty manifest with cumulative offsets, when   *)
(* every fetch and every decode succeeds, the run ends successfully and    *)
(* the destination file is the concatenation of the payloads.              *)
C1_RoundTrip_AsStated ==
    (Len(Blocks) > 0 /\ Cumulative /\ AllFetchedAndDecoded)
        => /\ exit_code = 0
           /\ dst.exists
           /\ dst.bytes = Concat(Len(Blocks))

(* C1, amended: the same, when moreover creating the file and every seek   *)
(* and write succeeds: the run ends with status 0 and the destination      *)
(* file has the total payload length and is the concatenation of the       *)
(* payloads in manifest order.                                             *)
C1_RoundTrip ==
    (Len(Blocks) > 0 /\ Cumulative /\ AllFetchedAndDecoded /\ error # "io")
        => /\ exit_code = 0
           /\ dst.exists
           /\ Len(dst.bytes) = TotalLen(Len(Blocks))
           /\ dst.bytes = Concat(Len(Blocks))

C1_Witness ==
    /\ Ended
    /\ exit_code = 0
    /\ Len(Blocks) = 3
    /\ Cumulative
    /\ Len(writes) = 3
    /\ dst.bytes = << 3, 3, 1, 2 >>

(* C2: the block requests the bucket observes are, in order, the paths of  *)
(* a prefix of the manifest's block list: the i-th block request is for    *)
(* the i-th descriptor.                                                    *)
C2_OrderPreservation ==
    /\ Len(BlockRequests) <= Len(Blocks)
    /\ \A i \in 1..Len(BlockRequests) :
         /\ ~SlicePanics(Blocks[i].BlockChecksum)
         /\ BlockRequests[i] = BlockName(basename, Blocks[i].BlockChecksum)

C2_Witness ==
    /\ Len(BlockRequests) = 3
    /\ BlockRequests[1] # BlockRequests[2]
    /\ BlockRequests[2] # BlockRequests[3]

(* C3: when the fetch of the k-th block fails, the run ends in error, the  *)
(* completed writes are exactly those of blocks 1..k-1 at their declared   *)
(* offsets, their bytes are in the file wherever no later one of them      *)
(* covers the position, and no request follows the k-th: the run is over.  *)
C3_FetchFailureIsolation ==
    (Ended /\ error = "remote" /\ Len(BlockRequests) >= 1)
        => LET k == Len(BlockRequests) IN
           /\ exit_code # 0
           /\ k <= Len(Blocks)
           /\ writes = [ j \in 1..(k - 1) |-> << Blocks[j].Offset, PayloadOf(j) >> ]
           /\ \A j \in 1..(k - 1) : \A p \in RangeOf(j) :
                (\A l \in (j + 1)..(k - 1) : p \notin RangeOf(l))
                    => /\ p <= Len(dst.bytes)
                       /\ dst.bytes[p] = PayloadOf(j)[p - Blocks[j].Offset]
           /\ ~ENABLED Next

C3_Witness ==
    /\ Ended
    /\ error = "remote"
    /\ Len(Blocks) = 3
    /\ Len(BlockRequests) = 2
    /\ writes = << << 0, << 1, 2 >> >> >>
    /\ dst.bytes = << 1, 2 >>

(* C4: when the manifest is malformed or names any compression method but  *)
(* "lz4", no block object is ever requested, and the run ends in error.    *)
Rejected ==
    \/ ~bucket_index.found
    \/ ~ParseOk(bucket_index.body)
    \/ bucket_index.body.obj.CompressionMethod # << "l", "z", "4" >>

C4_ManifestRejection ==
    Rejected => /\ BlockRequests = << >>
                /\ pc \in { "args", "basename", "get_index", "check_method",
                            "exit" }
                /\ Ended => exit_code # 0

C4_Witness ==
    /\ Ended
    /\ error = "method"
    /\ index.CompressionMethod = Gzip
    /\ Len(Blocks) > 0
    /\ Len(requests) = 1

(* C5, as stated: the engine keeps an expected offset, 0 at first and      *)
(* advanced by each block's decompressed length; when the descriptor the   *)
(* stream takes declares another offset, the run surfaces SkippedData.     *)
(* The code never constructs a SkippedData: the run has no such outcome.   *)
ExpectedOffset(k) == TotalLen(k - 1)

C5_GapDetection ==
    (b >= 1 /\ block = Blocks[b] /\ block.Offset # ExpectedOffset(b))
        => (Ended /\ error = "skipped")

(* C6, as stated: after a successful run, for every descriptor, the file   *)
(* holds the descriptor's decompressed content over its whole range.       *)
C6_WriterCoverage_AsStated ==
    (Ended /\ exit_code = 0)
        => \A k \in 1..Len(Blocks) : \A p \in RangeOf(k) :
             /\ p <= Len(dst.bytes)
             /\ dst.bytes[p] = PayloadOf(k)[p - Blocks[k].Offset]

(* C6, amended: after a successful run, for every descriptor, the file     *)
(* holds the descriptor's decompressed content at every position of its    *)
(* range that no later descriptor's range covers.                          *)
C6_WriterCoverage ==
    (Ended /\ exit_code = 0)
        => \A k \in 1..Len(Blocks) : \A p \in RangeOf(k) :
             (\A l \in (k + 1)..Len(Blocks) : p \notin RangeOf(l))
                 => /\ p <= Len(dst.bytes)
                    /\ dst.bytes[p] = PayloadOf(k)[p - Blocks[k].Offset]

C6_Witness ==
    /\ Ended
    /\ exit_code = 0
    /\ Len(Blocks) = 2
    /\ Blocks[1] = [Offset |-> 0, BlockChecksum |-> CkLong]
    /\ Blocks[2] = [Offset |-> 0, BlockChecksum |-> CkB]
    /\ dst.bytes = << 3, 2 >>

(* C7: a write step changes no byte outside the range of the block being   *)
(* written (a position past the end of the file reads as 0 before and      *)
(* after), and no position outside the union of the descriptors' ranges    *)
(* ever holds a written byte: the positions of a hole stay 0.              *)
At(bytes, p) == IF p <= Len(bytes) THEN bytes[p] ELSE 0

PayloadBytes == { 1, 2, 3 }

UnionOfRanges == UNION { RangeOf(k) : k \in 1..Len(Blocks) }

C7_NoStrayBytes ==
    \A p \in 1..Len(dst.bytes) :
        p \notin UnionOfRanges => dst.bytes[p] \notin PayloadBytes

C7_WriteStepFrame ==
    pc = "write"
        => \A p \in 1..Max(Len(dst.bytes), Len(dst'.bytes)) :
             ~(p > block.Offset /\ p <= block.Offset + Len(out))
                 => At(dst'.bytes, p) = At(dst.bytes, p)

C7_WriterFrame == [] C7_NoStrayBytes /\ [][C7_WriteStepFrame]_vars

C7_Witness ==
    /\ Ended
    /\ exit_code = 0
    /\ Len(writes) = 2
    /\ dst.bytes = << 3, 0, 3 >>

(* C8: with at least two '/' in the manifest path, the basename is the     *)
(* substring before the second-from-last '/'; with fewer, the derivation   *)
(* fails, the run ends in error and the bucket sees no request at all.     *)
SlashPositions(s) == { i \in 1..Len(s) : s[i] = "/" }

\* "backups/host1"
HostBase == << "b","a","c","k","u","p","s","/","h","o","s","t","1" >>

C8_RootPath ==
    LET sl == SlashPositions(backup_name) IN
    /\ (Cardinality(sl) >= 2 /\ args_len = ExpectedArgs
            /\ pc \notin { "args", "basename" })
           => /\ error # "basename"
              /\ \E i \in sl :
                   /\ Cardinality({ j \in sl : j > i }) = 1
                   /\ basename = SubSeq(backup_name, 1, i - 1)
    /\ Cardinality(sl) < 2
           => /\ requests = << >>
              /\ pc \in { "args", "basename", "exit" }
              /\ Ended => exit_code # 0
    /\ (backup_name = LongName /\ pc = "get_index") => basename = HostBase

C8_Witness ==
    /\ pc = "get_index"
    /\ backup_name = LongName
    /\ basename = HostBase

(* C9: the path requested for a block is basename, "/blocks/", the first   *)
(* two characters of the checksum, "/", the next two, "/", the checksum    *)
(* and ".blk"; descriptors with one checksum are requested under one path  *)
(* whatever their offsets and positions.                                   *)
\* "backups/host1/blocks/ab/cd/abcd1234.blk"
ExamplePath ==
    << "b","a","c","k","u","p","s","/","h","o","s","t","1","/",
       "b","l","o","c","k","s","/","a","b","/","c","d","/",
       "a","b","c","d","1","2","3","4",".","b","l","k" >>

C9_Namespace ==
    /\ \A i \in 1..Len(BlockRequests) :
         LET c == Blocks[i].BlockChecksum IN
         /\ Len(c) >= 4
         /\ BlockRequests[i] =
              basename \o << "/", "b", "l", "o", "c", "k", "s", "/" >>
                  \o << c[1], c[2] >> \o << "/" >> \o << c[3], c[4] >>
                  \o << "/" >> \o c \o << ".", "b", "l", "k" >>
         /\ (basename = HostBase /\ c = CkLong)
                => BlockRequests[i] = ExamplePath
    /\ \A i, j \in 1..Len(BlockRequests) :
         Blocks[i].BlockChecksum = Blocks[j].BlockChecksum
             => BlockRequests[i] = BlockRequests[j]

C9_Witness ==
    /\ Len(BlockRequests) = 3
    /\ BlockRequests[1] = ExamplePath
    /\ BlockRequests[3] = ExamplePath
    /\ Blocks[1].Offset # Blocks[3].Offset
    /\ BlockRequests[2] # ExamplePath

(* C10, as stated: every descriptor of a manifest the resolver accepted    *)
(* has a checksum of at least 4 characters, and the run never fails on a   *)
(* short checksum inside the fetch loop.                                   *)
Accepted == pc \in { "create", "next", "get_block", "decode", "write" }

C10_ChecksumInvariant ==
    /\ Accepted => \A k \in 1..Len(Blocks) : Len(Blocks[k].BlockChecksum) >= 4
    /\ error # "panic"

(* C11, as stated: a manifest the resolver accepted has a non-empty block  *)
(* list and the compression method "lz4", and a manifest with an empty     *)
(* block list never leads to a successful restore.                         *)
C11_ManifestInvariant ==
    /\ Accepted => /\ Len(Blocks) > 0
                   /\ index.CompressionMethod = << "l", "z", "4" >>
    /\ (Ended /\ exit_code = 0) => Len(Blocks) > 0

(* C12: at most one block is fetched or decoded and not yet written: the   *)
(* bucket has seen as many block requests as writes completed, or one      *)
(* more; a block is requested only when every block requested before it    *)
(* was written, and the stream has taken no block beyond the one in        *)
(* flight.                                                                 *)
C12_OneBlockInFlight ==
    /\ Len(writes) <= Len(BlockRequests)
    /\ Len(BlockRequests) <= Len(writes) + 1
    /\ b <= Len(writes) + 1
    /\ pc = "get_block" => /\ Len(BlockRequests) = Len(writes)
                           /\ b = Len(writes) + 1
    /\ pc \in { "decode", "write" } => /\ Len(BlockRequests) = Len(writes) + 1
                                       /\ b = Len(BlockRequests)
    /\ pc = "next" => /\ Len(BlockRequests) = Len(writes)
                      /\ b = Len(writes)

C12_Witness ==
    /\ pc = "write"
    /\ b = 3
    /\ Len(BlockRequests) = 3
    /\ Len(writes) = 2
    /\ out = << 1, 2 >>

(* C13: every descriptor's object is requested at most once; when the      *)
(* decoding or the seek/write of block k fails the run is over at once,    *)
(* in error: the completed writes are those of blocks 1..k-1, block k was  *)
(* the last one requested, a failed decoding leaves the file as those      *)
(* writes made it and a failed write changes nothing outside block k's     *)
(* range; and a run that ends with status 0 has written every block.       *)
RECURSIVE Replay(_)
Replay(k) ==
    IF k = 0 THEN << >>
    ELSE WriteAt(Replay(k - 1), Blocks[k].Offset, PayloadOf(k))

WrittenUpTo(k) == [ j \in 1..k |-> << Blocks[j].Offset, PayloadOf(j) >> ]

C13_AbortOnFirstError ==
    /\ Len(BlockRequests) <= b
    /\ b <= Len(Blocks)
    /\ (Ended /\ error = "decode")
           => /\ exit_code # 0
              /\ b >= 1
              /\ Len(BlockRequests) = b
              /\ writes = WrittenUpTo(b - 1)
              /\ dst.bytes = Replay(b - 1)
              /\ ~ENABLED Next
    /\ (Ended /\ error = "io" /\ b >= 1)
           => /\ exit_code # 0
              /\ Len(BlockRequests) = b
              /\ writes = WrittenUpTo(b - 1)
              /\ \A p \in 1..Max(Len(dst.bytes), Len(Replay(b - 1))) :
                   p \notin RangeOf(b)
                       => At(dst.bytes, p) = At(Replay(b - 1), p)
              /\ ~ENABLED Next
    /\ (Ended /\ exit_code = 0)
           => /\ error = "none"
              /\ Len(BlockRequests) = Len(Blocks)
              /\ writes = WrittenUpTo(Len(Blocks))

C13_Witness ==
    /\ Ended
    /\ error = "decode"
    /\ Len(Blocks) = 3
    /\ b = 2
    /\ writes = << << 1, << 3 >> >> >>
    /\ dst.bytes = << 0, 3 >>

(* C14, as stated: no run ends in SkippedData, and for a manifest with an  *)
(* offset discontinuity between consecutive descriptors whose fetches and  *)
(* decodes all succeed, every block is written and the run ends with       *)
(* status 0.                                                               *)
Discontinuous ==
    \E k \in 1..(Len(Blocks) - 1) :
        Blocks[k + 1].Offset # Blocks[k].Offset + Len(PayloadOf(k))

C14_NoSkippedData_AsStated ==
    /\ error # "skipped"
    /\ (Discontinuous /\ AllFetchedAndDecoded)
           => /\ exit_code = 0
              /\ writes = WrittenUpTo(Len(Blocks))

(* C14, amended: the same, when moreover creating the file and every seek  *)
(* and write succeeds.                                                     *)
C14_NoSkippedData ==
    /\ error # "skipped"
    /\ (Discontinuous /\ AllFetchedAndDecoded /\ error # "io")
           => /\ exit_code = 0
              /\ writes = WrittenUpTo(Len(Blocks))

C14_Witness ==
    /\ Ended
    /\ exit_code = 0
    /\ Discontinuous
    /\ writes = << << 2, << 3 >> >>, << 0, << 1, 2 >> >> >>
    /\ dst.bytes = << 1, 2, 3 >>

(* C15, as stated: after a successful run the byte at every position       *)
(* below the largest block end is that of the last descriptor covering     *)
(* the position, 0 if none covers it, and the file length is the largest   *)
(* offset + decoded length over all descriptors (0 for an empty list).     *)
RECURSIVE MaxEnd(_)
MaxEnd(k) ==
    IF k = 0 THEN 0
    ELSE Max(MaxEnd(k - 1), Blocks[k].Offset + Len(PayloadOf(k)))

RECURSIVE MaxWrittenEnd(_)
MaxWrittenEnd(k) ==
    IF k = 0 THEN 0
    ELSE IF PayloadOf(k) = << >> THEN MaxWrittenEnd(k - 1)
    ELSE Max(MaxWrittenEnd(k - 1), Blocks[k].Offset + Len(PayloadOf(k)))

Covering(p) == { k \in 1..Len(Blocks) : p \in RangeOf(k) }

LastCovering(p) == CHOOSE k \in Covering(p) : \A l \in Covering(p) : l <= k

LastWriterByte(p) ==
    IF Covering(p) = { } THEN 0
    ELSE PayloadOf(LastCovering(p))[p - Blocks[LastCovering(p)].Offset]

C15_LastWriterWins_AsStated ==
    (Ended /\ exit_code = 0)
        => /\ Len(dst.bytes) = MaxEnd(Len(Blocks))
           /\ \A p \in 1..MaxEnd(Len(Blocks)) : dst.bytes[p] = LastWriterByte(p)

(* C15, amended: the same with the file length, and the positions, up to   *)
(* the largest offset + decoded length over the descriptors whose decoded  *)
(* payload is not empty (0 if there is none).                              *)
C15_LastWriterWins ==
    (Ended /\ exit_code = 0)
        => /\ Len(dst.bytes) = MaxWrittenEnd(Len(Blocks))
           /\ \A p \in 1..Len(dst.bytes) : dst.bytes[p] = LastWriterByte(p)

C15_Witness ==
    /\ Ended
    /\ exit_code = 0
    /\ Len(Blocks) = 3
    /\ Blocks[1] = [Offset |-> 1, BlockChecksum |-> CkLong]
    /\ Blocks[2] = [Offset |-> 1, BlockChecksum |-> CkB]
    /\ Blocks[3] = [Offset |-> 2, BlockChecksum |-> CkEmpty]
    /\ dst.bytes = << 0, 3, 2 >>

(* C16: the destination file is created or truncated only after the        *)
(* manifest was fetched, parsed and found to use "lz4"; a run that ends    *)
(* with a usage error, a path-derivation failure, a manifest fetch         *)
(* failure, a malformed manifest or an unsupported method leaves the       *)
(* destination file as it found it.                                        *)
EarlyFailure ==
    /\ Ended
    /\ \/ error \in { "usage", "basename", "json", "method" }
       \/ error = "remote" /\ Len(requests) = 1

C16_DestinationUntouched ==
    /\ pc \in { "args", "basename", "get_index", "check_method", "create" }
           => dst = dst_before
    /\ EarlyFailure => dst = dst_before
    /\ dst # dst_before
           => /\ Len(requests) >= 1
              /\ bucket_index.found
              /\ ParseOk(bucket_index.body)
              /\ index.CompressionMethod = << "l", "z", "4" >>

C16_Witness ==
    /\ Ended
    /\ error = "method"
    /\ index.CompressionMethod = Lz4Upper
    /\ Len(Blocks) = 3
    /\ dst = OldDst

(* C17: the destination is truncated before the first block request, and   *)
(* from then on the file of the run and the file of its twin, which        *)
(* started over another old file, are the same at every step and at the    *)
(* end, on success and on abort; no byte of either old file is left.       *)
Created ==
    \/ pc \in { "next", "get_block", "decode", "write" }
    \/ /\ Ended
       /\ \/ error \in { "none", "panic", "decode" }
          \/ error = "remote" /\ Len(requests) >= 2
          \/ error = "io" /\ b >= 1

OldByteValues == { 8, 9 }

C17_PriorContentsIndependence ==
    /\ BlockRequests # << >> => Created
    /\ Created
           => /\ dst = dst_twin
              /\ \A p \in 1..Len(dst.bytes) : dst.bytes[p] \notin OldByteValues

C17_Witness ==
    /\ Ended
    /\ error = "io"
    /\ dst_before = OldDst
    /\ Len(writes) = 1
    /\ b = 2
    /\ dst.bytes = << 3, 0, 1 >>
    /\ dst_twin.bytes = << 3, 0, 1 >>

(* C18, as stated: a run over a manifest of n blocks terminates; it ends   *)
(* with status 0 exactly when n fetches, n decodes and n writes were       *)
(* performed, and otherwise ends in error after at most n fetches and      *)
(* fewer than n writes.                                                    *)
HasManifest == bucket_index.found /\ ParseOk(bucket_index.body)

NBlocks == Len(bucket_index.body.obj.Blocks)

Fetches == Len(BlockRequests)

Decodes ==
    IF pc = "write" \/ (Ended /\ error = "io" /\ b > Len(writes))
    THEN Len(writes) + 1
    ELSE Len(writes)

Accounting ==
    /\ exit_code = 0 <=> (Fetches = NBlocks /\ Decodes = NBlocks
                            /\ Len(writes) = NBlocks)
    /\ exit_code # 0 => (Fetches <= NBlocks /\ Len(writes) < NBlocks)

C18_Termination_AsStated ==
    /\ <>Ended
    /\ []((Ended /\ HasManifest) => Accounting)

(* C18, amended: the same for a manifest of n >= 1 blocks.                 *)
C18_Termination ==
    /\ <>Ended
    /\ []((Ended /\ HasManifest /\ NBlocks >= 1) => Accounting)

C18_Witness ==
    /\ Ended
    /\ HasManifest
    /\ NBlocks = 3
    /\ exit_code = 0
    /\ Fetches = 3
    /\ Decodes = 3
    /\ Len(writes) = 3

====
